---- MODULE Spec2Model ----
(***************************************************************************)
(* Model of src/map_elites/mapelites.py: FeatureDimension                  *)
(* (feature_descriptor, discretize) and MapElites (place_in_mapelites,     *)
(* random_selection, generate_initial_population, run).                    *)
(*                                                                         *)
(* Numbers.  Feature values and bin edges are Python floats; the model     *)
(* keeps them as integers counted in tenths (0.5 is 5, the edge 3 is 30).  *)
(* Performances are floats as well: the finite ones are integers, and      *)
(* np.inf is the integer Inf, which is above every finite performance of   *)
(* the model, so that <, >= and == on the model's values are the float     *)
(* comparisons.  NaN is left out: it is unordered.                         *)
(***************************************************************************)
EXTENDS Integers, Sequences, FiniteSets, TLC

VARIABLES
    minimization,   \* self.minimization
    solutions,      \* self.solutions: cell -> stored genotype (2 floats)
    performances,   \* self.performances: cell -> stored performance
    pc,             \* position of the caller / of run()
    x,              \* argument of the last place_in_mapelites call
    log,            \* outcome of the last place_in_mapelites call
    before,         \* history: the target cell as that call found it
    computed,       \* history: cell -> best performance computed for it
    accepted,       \* history: cells a candidate was ever accepted into
    individuals,    \* random_selection: the argument
    idxs,           \* random_selection: accepted coordinates
    inds,           \* random_selection: collected genotypes
    retries,        \* history: rejected draws of this call (saturating)
    random_solutions, \* self.random_solutions (G)
    iterations,     \* self.iterations
    seeded,         \* generate_initial_population: solutions generated
    it,             \* run(): the loop variable i
    ind,            \* run(): the local ind
    overridden,     \* TRUE when a subclass overrides stopping_criteria
    trace,          \* history: the steps run() has performed, in order
    stopped,        \* history: stopping_criteria() has returned True
    finite_seeds,   \* history: every seed so far had a finite performance
    config,         \* from_config: the configuration it is given
    mutation_args,  \* self.mutation_args: "dict" or "None"
    fd              \* FeatureDimension under test and its last call

archiveVars == <<solutions, performances, computed, accepted>>
callVars == <<x, log, before>>
selVars == <<individuals, idxs, inds, retries>>
runVars == <<random_solutions, iterations, seeded, it, ind, overridden, trace,
             stopped, finite_seeds>>
cfgVars == <<config, mutation_args>>

vars == <<minimization, pc, archiveVars, callVars, selVars, runVars, cfgVars,
          fd>>

(***************************************************************************)
(* Bounds of the model.                                                    *)
(***************************************************************************)
MaxEdge == 3        \* bin edges of the dimension under test are in 0..MaxEdge
MaxMeasure == 2     \* measured and target values are in -MaxMeasure..MaxMeasure
MaxIndividuals == 3 \* random_selection is called with 0..MaxIndividuals
MaxRetries == 2     \* the count of rejected draws saturates here
MaxSeed == 2        \* random_solutions is in 0..MaxSeed
MaxIter == 2        \* iterations is in 0..MaxIter

Abs(a) == IF a < 0 THEN -a ELSE a

(***************************************************************************)
(* FeatureDimension                                                        *)
(***************************************************************************)
\* The five operators FeatureDimension.__init__ accepts.
Operators == {"eq", "le", "lt", "ge", "gt"}

\* operator.eq / le / lt / ge / gt applied to (a, b)
OperatorApply(op, a, b) ==
    CASE op = "eq" -> a = b
      [] op = "le" -> a <= b
      [] op = "lt" -> a < b
      [] op = "ge" -> a >= b
      [] op = "gt" -> a > b

\* mutant: the error is returned with its sign
feature_descriptor_signed(op, m, t) ==
    IF op = "eq"
    THEN m - t
    ELSE IF OperatorApply(op, m, t) THEN 0 ELSE m - t

\* feature_descriptor(x), with m = feature_function_call(x) and
\* t = feature_function_target(x)
feature_descriptor(op, m, t) ==
    IF op = "eq"
    THEN Abs(m - t)
    ELSE IF OperatorApply(op, m, t) THEN 0 ELSE Abs(m - t)

\* mutant: np.digitize(..., right=True): bins[i-1] < v <= bins[i]
digitize_right(v, bins) ==
    Cardinality({j \in 1..Len(bins) : bins[j] < v})

\* np.digitize([v], bins)[0] for increasing bins: the i with
\* bins[i-1] <= v < bins[i] (1-indexed edges), 0 below the first edge and
\* len(bins) at or above the last one, i.e. the number of edges <= v.
digitize(v, bins) ==
    Cardinality({j \in 1..Len(bins) : bins[j] <= v})

\* mutant: a value outside the bins is put in the nearest bin
discretize_clamped(v, bins) ==
    LET index == digitize(v, bins)
    IN  [raised |-> FALSE,
         index |-> IF index = 0 THEN 0
                   ELSE IF index = Len(bins) THEN Len(bins) - 2
                   ELSE index - 1]

\* discretize(value): [raised |-> TRUE] for the Exception, else the index
discretize(v, bins) ==
    LET index == digitize(v, bins)
    IN  IF index \in {0, Len(bins)}
        THEN [raised |-> TRUE, index |-> -1]
        ELSE [raised |-> FALSE, index |-> index - 1]

(***************************************************************************)
(* The problem instance: the members a concrete subclass supplies.         *)
(* One feature dimension, relation "equals" against the target 0, with     *)
(* edges 0, 1, 2, 3 (three bins); a genotype is a vector of two floats,    *)
(* the first one measured by the feature function, the second one fed to   *)
(* the objective, which has a pole (np.inf) at 0.                          *)
(***************************************************************************)
\* np.inf
Inf == 1000

\* the bins of the feature dimension, in tenths
Bins == <<0, 10, 20, 30>>

\* generate_feature_dimensions()
feature_dimensions ==
    << [name |-> "f0", operator |-> "eq", target |-> 0, bins |-> Bins] >>

\* The first gene of the candidates: 0.5, 1.5, 1.6, 2.5, and 3.0, which is
\* the last edge.
FeatureGenes == {5, 15, 16, 25, 30}

\* The second gene of the candidates.
ObjectiveGenes == {0, 3, 5, 6, 8, 10}

\* What generate_random_solution() and the mutation operator can return.
Candidates ==
    {g \in FeatureGenes \X ObjectiveGenes : g[1] = 30 => g[2] = 3}

\* What they return in the runs of run() that are explored: one candidate
\* past the last edge, and three performances (one of them np.inf) in each
\* of the three bins.
RunCandidates ==
    {g \in Candidates : g[1] \in {5, 15, 25, 30} /\ g[2] \in {0, 3, 5}}

\* performance_measure(x)
performance_measure(g) == IF g[2] = 0 THEN Inf ELSE g[2]

\* map_x_to_b(x): the tuple of the bins of x's descriptor errors, one per
\* feature dimension; discretize's Exception propagates.
map_x_to_b(g) ==
    LET ft == feature_dimensions[1]
        d  == discretize(feature_descriptor(ft.operator, g[1], ft.target),
                         ft.bins)
    IN  [raised |-> d.raised, b |-> <<d.index>>]

(***************************************************************************)
(* MapElites: the archive                                                  *)
(***************************************************************************)
\* ft_bins: the number of bins of each feature dimension
ft_bins == [d \in 1..Len(feature_dimensions) |->
               Len(feature_dimensions[d].bins) - 1]

\* The coordinates of the grid of shape ft_bins.
Cells == {<<i>> : i \in 0..(ft_bins[1] - 1)}

\* The fill value of self.solutions: (np.inf, np.inf)
EmptySolution == <<Inf, Inf>>

\* mutant: the two directions swapped
place_operator_swapped(perf, stored) ==
    IF minimization THEN perf >= stored ELSE perf < stored

\* mutant: minimization with a non-strict comparison
place_operator_le(perf, stored) ==
    IF minimization THEN perf <= stored ELSE perf >= stored

\* self.place_operator: operator.lt for minimization, else operator.ge
place_operator(perf, stored) ==
    IF minimization THEN perf < stored ELSE perf >= stored

\* The better of the performances of S under the active direction.
BestOf(S) ==
    CHOOSE p \in S : \A q \in S : IF minimization THEN p <= q ELSE p >= q

\* No place_in_mapelites call was the last step.
NoCandidate == <<>>

\* The cell at b as a pair.
CellAt(b) == [solution |-> solutions[b], performance |-> performances[b]]

\* mutant: the performance is written before the comparison's outcome is
\* known
PlaceBody_always_perf(g, b) ==
    LET perf == performance_measure(g)
    IN  /\ performances' = [performances EXCEPT ![b] = perf]
        /\ IF place_operator(perf, performances[b])
           THEN /\ solutions' = [solutions EXCEPT ![b] = g]
                /\ log' = "placed"
                /\ accepted' = accepted \cup {b}
           ELSE /\ solutions' = solutions
                /\ log' = "rejected"
                /\ accepted' = accepted
        /\ computed' = [computed EXCEPT ![b] = {BestOf(@ \cup {perf})}]

\* mutant: a rejection clears the cell
PlaceBody_clear_on_reject(g, b) ==
    LET perf == performance_measure(g)
    IN  /\ IF place_operator(perf, performances[b])
           THEN /\ performances' = [performances EXCEPT ![b] = perf]
                /\ solutions' = [solutions EXCEPT ![b] = g]
                /\ log' = "placed"
                /\ accepted' = accepted \cup {b}
           ELSE /\ performances' = [performances EXCEPT ![b] = Inf]
                /\ solutions' = [solutions EXCEPT ![b] = EmptySolution]
                /\ log' = "rejected"
                /\ accepted' = accepted
        /\ computed' = [computed EXCEPT ![b] = {BestOf(@ \cup {perf})}]

\* mutant: on replace only the genotype grid is written
PlaceBody_solution_only(g, b) ==
    LET perf == performance_measure(g)
    IN  /\ IF place_operator(perf, performances[b])
           THEN /\ performances' = performances
                /\ solutions' = [solutions EXCEPT ![b] = g]
                /\ log' = "placed"
                /\ accepted' = accepted \cup {b}
           ELSE /\ UNCHANGED <<performances, solutions>>
                /\ log' = "rejected"
                /\ accepted' = accepted
        /\ computed' = [computed EXCEPT ![b] = {BestOf(@ \cup {perf})}]

\* place_in_mapelites(x) once b is known: the comparison and the writes
PlaceBody(g, b) ==
    LET perf == performance_measure(g)
    IN  /\ IF place_operator(perf, performances[b])
           THEN /\ performances' = [performances EXCEPT ![b] = perf]
                /\ solutions' = [solutions EXCEPT ![b] = g]
                /\ log' = "placed"
                /\ accepted' = accepted \cup {b}
           ELSE /\ UNCHANGED <<performances, solutions>>
                /\ log' = "rejected"
                /\ accepted' = accepted
        /\ computed' = [computed EXCEPT ![b] = {BestOf(@ \cup {perf})}]

\* place_in_mapelites(x): map_x_to_b raises before anything is written
place_in_mapelites(g) ==
    LET r == map_x_to_b(g)
    IN  /\ x' = g
        /\ IF r.raised
           THEN /\ log' = "raise"
                /\ before' = NoCandidate
                /\ UNCHANGED archiveVars
           ELSE /\ before' = CellAt(r.b)
                /\ PlaceBody(g, r.b)

(***************************************************************************)
(* MapElites: random_selection                                             *)
(***************************************************************************)
\* mutant: the emptiness test reads the performance grid
_is_not_initialized_perf(index) == performances[index] = Inf

\* _is_not_initialized(index): any component v of the stored genotype with
\* v == np.nan (never true) or np.abs(v) == np.inf
_is_not_initialized(index) ==
    \E i \in 1..Len(solutions[index]) :
        FALSE \/ Abs(solutions[index][i]) = Inf

\* mutant: the draw is only tested against the coordinates already taken
RejectDraw_no_empty_test(idx) ==
    \E k \in 1..Len(idxs) : idxs[k] = idx

\* mutant: the draw is only tested for emptiness
RejectDraw_no_repeat_test(idx) == _is_not_initialized(idx)

\* mutant: the emptiness test is negated
RejectDraw_inverted(idx) ==
    (\E k \in 1..Len(idxs) : idxs[k] = idx) \/ ~_is_not_initialized(idx)

\* the condition of the while loop: idx in idxs or _is_not_initialized(idx)
RejectDraw(idx) ==
    (\E k \in 1..Len(idxs) : idxs[k] = idx) \/ _is_not_initialized(idx)

\* The step is no place_in_mapelites call.
NoCall ==
    /\ x' = NoCandidate
    /\ log' = "none"
    /\ before' = NoCandidate

\* No random_selection call is in progress or has just returned.
ResetSelection ==
    /\ individuals' = 0
    /\ idxs' = <<>>
    /\ inds' = <<>>
    /\ retries' = 0

\* random_selection(individuals=n) is entered: inds = list(); idxs = list()
EnterSelection(n) ==
    /\ individuals' = n
    /\ idxs' = <<>>
    /\ inds' = <<>>
    /\ retries' = 0

\* One draw of _get_random_index() and the test of the while loop: a
\* rejected draw is drawn again, an accepted one is appended.
Draw(idx) ==
    /\ pc = "select"
    /\ Len(idxs) < individuals
    /\ IF RejectDraw(idx)
       THEN /\ retries' = IF retries < MaxRetries THEN retries + 1 ELSE retries
            /\ UNCHANGED <<idxs, inds>>
       ELSE /\ idxs' = Append(idxs, idx)
            /\ inds' = Append(inds, solutions[idx])
            /\ retries' = retries
    /\ UNCHANGED <<minimization, pc, archiveVars, callVars, individuals,
                   runVars, cfgVars, fd>>

\* return inds: the for loop has run `individuals` times
Return ==
    /\ pc = "select"
    /\ Len(idxs) = individuals
    /\ pc' = "returned"
    /\ UNCHANGED <<minimization, archiveVars, callVars, selVars, runVars, cfgVars, fd>>

(***************************************************************************)
(* Spec: a MapElites object under any sequence of place_in_mapelites and   *)
(* random_selection calls of a single-threaded caller.                     *)
(***************************************************************************)
NoFd == [call |-> "none"]

InitArchive ==
    /\ minimization \in BOOLEAN
    /\ solutions = [b \in Cells |-> EmptySolution]
    /\ performances = [b \in Cells |-> Inf]
    /\ x = NoCandidate
    /\ log = "none"
    /\ before = NoCandidate
    /\ computed = [b \in Cells |-> {}]
    /\ accepted = {}
    /\ individuals = 0
    /\ idxs = <<>>
    /\ inds = <<>>
    /\ retries = 0
    /\ seeded = 0
    /\ it = 0
    /\ ind = NoCandidate
    /\ trace = <<>>
    /\ stopped = FALSE
    /\ finite_seeds = TRUE

\* No configuration: the object is constructed directly, with a dict of
\* mutation arguments.
NoConfig == [given |-> FALSE]

Init ==
    /\ InitArchive
    /\ fd = NoFd
    /\ config = NoConfig
    /\ mutation_args = "dict"
    /\ pc = "idle"
    /\ random_solutions = 0
    /\ iterations = 0
    /\ overridden = FALSE

\* The caller is between two calls.
Idle == pc \in {"idle", "returned"}

\* the caller calls place_in_mapelites(g)
CallPlace(g) ==
    /\ Idle
    /\ place_in_mapelites(g)
    /\ pc' = "idle"
    /\ ResetSelection
    /\ UNCHANGED <<minimization, runVars, cfgVars, fd>>

\* the caller calls random_selection(individuals=n)
CallRandomSelection(n) ==
    /\ Idle
    /\ EnterSelection(n)
    /\ pc' = "select"
    /\ NoCall
    /\ UNCHANGED <<minimization, archiveVars, runVars, cfgVars, fd>>

Next ==
    \/ \E g \in Candidates : CallPlace(g)
    \/ \E n \in 0..MaxIndividuals : CallRandomSelection(n)
    \/ \E idx \in Cells : Draw(idx)
    \/ Return

Spec == Init /\ [][Next]_vars

(***************************************************************************)
(* Properties of the archive under Spec                                    *)
(***************************************************************************)
\* The step is a place_in_mapelites call with argument x'.
PlaceStep == Idle /\ pc' = "idle" /\ x' # NoCandidate

\* The cell of a candidate whose features are in range.
CellOf(g) == map_x_to_b(g).b

InRange(g) == ~map_x_to_b(g).raised

\* The last step was a place_in_mapelites call that reached the comparison.
Compared == log \in {"placed", "rejected"}

\* C1: placement is monotonic.  In every reachable state and for both
\* directions, the performance stored in a cell is at least as good (<= for
\* minimization, >= for maximization) as every performance computed for a
\* candidate that mapped to the cell.  computed[b] keeps the best of these
\* performances, which is enough because the comparison is a total order.
C1_PlacementMonotonic ==
    \A b \in Cells : \A p \in computed[b] :
        IF minimization THEN performances[b] <= p ELSE performances[b] >= p

\* C1 witness: under minimization a worse candidate has just been rejected
\* at a cell that already holds a finite performance.
C1_Witness ==
    /\ minimization
    /\ log = "rejected"
    /\ before.performance < Inf
    /\ performance_measure(x) > performances[CellOf(x)]
    /\ computed[CellOf(x)] # {}

\* C2 (as claimed): for both directions, placing a candidate of finite
\* performance into a cell that is still empty is accepted: after the call
\* the cell holds the candidate's genotype and performance.
C2_SentinelReplaced ==
    [][ ( /\ PlaceStep
          /\ InRange(x')
          /\ performance_measure(x') < Inf
          /\ CellAt(CellOf(x')) = [solution |-> EmptySolution,
                                   performance |-> Inf] )
        => ( /\ solutions'[CellOf(x')] = x'
             /\ performances'[CellOf(x')] = performance_measure(x') ) ]_vars

\* C3: tie-break.  When the candidate maps to an occupied cell and its
\* performance equals the stored one, minimization keeps the incumbent
\* genotype and maximization stores the candidate's.
C3_TieBreak ==
    [][ ( /\ PlaceStep
          /\ InRange(x')
          /\ solutions[CellOf(x')] # EmptySolution
          /\ performance_measure(x') = performances[CellOf(x')] )
        => IF minimization
           THEN /\ solutions'[CellOf(x')] = solutions[CellOf(x')]
                /\ log' = "rejected"
           ELSE /\ solutions'[CellOf(x')] = x'
                /\ log' = "placed" ]_vars

\* C3 witness: under maximization a candidate has replaced a different
\* incumbent genotype of the same performance.
C3_Witness ==
    /\ ~minimization
    /\ log = "placed"
    /\ before.solution # EmptySolution
    /\ before.solution # x
    /\ before.performance = performance_measure(x)
    /\ solutions[CellOf(x)] = x

\* C3, the other direction: under minimization a candidate that ties with a
\* different incumbent has been rejected.
C3_WitnessMin ==
    /\ minimization
    /\ log = "rejected"
    /\ before.solution # EmptySolution
    /\ before.solution # x
    /\ before.performance = performance_measure(x)
    /\ solutions[CellOf(x)] = before.solution

\* C4: effect and frame of one place call with target cell b.  On replace
\* the genotype and the performance at b become x and performance(x) and
\* every other cell is unchanged; on reject both grids are unchanged; a call
\* that reaches the comparison raises nothing.  The scenario: minimization,
\* performances 10, 5, 8; performance 3 at bin 1 replaces, then performance
\* 6 at bin 1 is rejected.
C4_PlaceEffect ==
    [][ (PlaceStep /\ InRange(x')) =>
          LET b == CellOf(x')
              perf == performance_measure(x')
              bin1 == <<1>>
          IN  /\ log' \in {"placed", "rejected"}
              /\ log' = "placed" =>
                    /\ solutions'[b] = x'
                    /\ performances'[b] = perf
                    /\ \A c \in Cells \ {b} :
                          /\ solutions'[c] = solutions[c]
                          /\ performances'[c] = performances[c]
              /\ log' = "rejected" =>
                    /\ solutions' = solutions
                    /\ performances' = performances
              /\ ( /\ minimization
                   /\ performances = (<<0>> :> 10 @@ <<1>> :> 5 @@ <<2>> :> 8)
                   /\ b = bin1 /\ perf = 3 )
                 => ( /\ log' = "placed"
                      /\ performances' =
                            (<<0>> :> 10 @@ <<1>> :> 3 @@ <<2>> :> 8) )
              /\ ( /\ minimization
                   /\ performances[bin1] \in {3, 5}
                   /\ b = bin1 /\ perf = 6 )
                 => log' = "rejected" ]_vars

\* C4 witness: the end of the scenario.  Performance 6 has just been
\* rejected at bin 1, which holds the genotype of performance 3 that
\* replaced the one of performance 5, next to 10 and 8.
C4_Witness ==
    /\ minimization
    /\ log = "rejected"
    /\ CellOf(x) = <<1>>
    /\ performance_measure(x) = 6
    /\ performances = (<<0>> :> 10 @@ <<1>> :> 3 @@ <<2>> :> 8)
    /\ computed[<<1>>] = {3}
    /\ before = CellAt(<<1>>)

\* The cells a candidate was accepted into.
Occupied == accepted

\* C5: with at least n occupied cells, when random_selection(n) returns the
\* n accepted coordinates are pairwise distinct, each is an occupied cell,
\* and the returned genotypes are the ones stored at these coordinates.
C5_SelectionSound ==
    (pc = "returned" /\ Cardinality(Occupied) >= individuals) =>
        /\ Len(idxs) = individuals
        /\ Len(inds) = individuals
        /\ \A j, k \in 1..Len(idxs) : j # k => idxs[j] # idxs[k]
        /\ \A k \in 1..Len(idxs) :
              /\ idxs[k] \in Occupied
              /\ inds[k] = solutions[idxs[k]]
              /\ inds[k] # EmptySolution

\* C5 witness: random_selection(2) has returned from an archive with an
\* empty cell, after draws that were rejected.
C5_Witness ==
    /\ pc = "returned"
    /\ individuals = 2
    /\ Cardinality(Occupied) = 2
    /\ retries >= 2

\* C6: with fewer than n non-empty cells random_selection(n) never returns.
C6_NoReturnWhenTooFew ==
    (pc \in {"select", "returned"} /\ Cardinality(Occupied) < individuals)
        => /\ pc = "select"
           /\ Len(idxs) < individuals

\* C6 witness: every occupied cell has been collected, fewer than n, and
\* the loop is still drawing.
C6_Witness ==
    /\ pc = "select"
    /\ Cardinality(Occupied) < individuals
    /\ Cardinality(Occupied) >= 1
    /\ Len(idxs) = Cardinality(Occupied)
    /\ retries >= 2

BinEdges ==
    {s \in UNION {[1..n -> 0..MaxEdge] : n \in 1..(MaxEdge + 1)} :
        \A i, j \in 1..Len(s) : i < j => s[i] < s[j]}

InitFD ==
    /\ InitArchive
    /\ config = NoConfig
    /\ mutation_args = "dict"
    /\ minimization = TRUE
    /\ pc = "fd"
    /\ random_solutions = 0
    /\ iterations = 0
    /\ overridden = FALSE
    /\ \E bins \in BinEdges, v \in -1..(MaxEdge + 1), op \in Operators,
          m, t \in -MaxMeasure..MaxMeasure :
          fd = [call |-> "none", bins |-> bins, value |-> v, operator |-> op,
                m |-> m, t |-> t, raised |-> FALSE, result |-> 0]

\* ft.discretize(value)
Discretize ==
    /\ pc = "fd"
    /\ LET d == discretize(fd.value, fd.bins)
       IN  fd' = [fd EXCEPT !.call = "discretize", !.raised = d.raised,
                            !.result = d.index]
    /\ UNCHANGED <<minimization, pc, archiveVars, callVars, selVars, runVars,
                   cfgVars>>

\* ft.feature_descriptor(x)
FeatureDescriptor ==
    /\ pc = "fd"
    /\ fd' = [fd EXCEPT !.call = "feature_descriptor", !.raised = FALSE,
                        !.result = feature_descriptor(fd.operator, fd.m, fd.t)]
    /\ UNCHANGED <<minimization, pc, archiveVars, callVars, selVars, runVars,
                   cfgVars>>

NextFD == Discretize \/ FeatureDescriptor

SpecFD == InitFD /\ [][NextFD]_vars

\* C8: for strictly increasing edges bins[0..k] and every value v, if
\* bins[0] <= v < bins[k] discretize returns the one index i of 0..k-1 with
\* bins[i] <= v < bins[i+1], and otherwise (v below the first edge, or at or
\* above the last one) it raises.  (Sequences are 1-based here: the edge
\* bins[i] is fd.bins[i + 1].)
C8_Discretize ==
    fd.call = "discretize" =>
        LET bins == fd.bins
            v == fd.value
            k == Len(bins) - 1
        IN  IF bins[1] <= v /\ v < bins[k + 1]
            THEN /\ ~fd.raised
                 /\ fd.result \in 0..(k - 1)
                 /\ bins[fd.result + 1] <= v
                 /\ v < bins[fd.result + 2]
                 /\ \A i \in 0..(k - 1) :
                       (bins[i + 1] <= v /\ v < bins[i + 2]) => i = fd.result
            ELSE fd.raised

\* C8 witness: on the edges 0, 1, 2, 3 the value of the first edge has been
\* put in bin 0.
C8_Witness ==
    /\ fd.call = "discretize"
    /\ fd.bins = <<0, 1, 2, 3>>
    /\ fd.value = 0
    /\ ~fd.raised
    /\ fd.result = 0

\* C8, the other end: on the same edges the value of the last edge raised.
C8_WitnessLastEdge ==
    /\ fd.call = "discretize"
    /\ fd.bins = <<0, 1, 2, 3>>
    /\ fd.value = 3
    /\ fd.raised

\* C9: with measured value m and target t, feature_descriptor is |m - t|
\* for the relation equals; for <, <=, >, >= it is 0 when the relation holds
\* of (m, t) and |m - t| otherwise; it is never negative.
C9_FeatureDescriptor ==
    fd.call = "feature_descriptor" =>
        LET m == fd.m
            t == fd.t
            gap == IF m >= t THEN m - t ELSE t - m
            holds == \/ fd.operator = "lt" /\ m < t
                     \/ fd.operator = "le" /\ m <= t
                     \/ fd.operator = "gt" /\ m > t
                     \/ fd.operator = "ge" /\ m >= t
        IN  /\ fd.result >= 0
            /\ fd.operator = "eq" => fd.result = gap
            /\ (fd.operator # "eq" /\ holds) => fd.result = 0
            /\ (fd.operator # "eq" /\ ~holds) => fd.result = gap

\* C9 witness: an inequality that does not hold has given the gap.
C9_Witness ==
    /\ fd.call = "feature_descriptor"
    /\ fd.operator = "ge"
    /\ fd.m < fd.t
    /\ fd.result = fd.t - fd.m
    /\ fd.result > 0

(***************************************************************************)
(* SpecRun: run() on a freshly constructed object.                         *)
(***************************************************************************)
InitRun ==
    /\ InitArchive
    /\ fd = NoFd
    /\ config = NoConfig
    /\ mutation_args = "dict"
    /\ pc = "seed"
    /\ random_solutions \in 0..MaxSeed
    /\ iterations \in 0..MaxIter
    /\ overridden \in BOOLEAN

\* One iteration of generate_initial_population's loop:
\* x = generate_random_solution(); place_in_mapelites(x).  An Exception of
\* place_in_mapelites ends run().
Seed(g) ==
    /\ pc = "seed"
    /\ seeded < random_solutions
    /\ place_in_mapelites(g)
    /\ seeded' = seeded + 1
    /\ pc' = IF map_x_to_b(g).raised THEN "aborted" ELSE "seed"
    /\ trace' = Append(trace, "seed_place")
    /\ finite_seeds' = (finite_seeds /\ performance_measure(g) < Inf)
    /\ UNCHANGED <<minimization, selVars, random_solutions, iterations, it,
                   ind, overridden, stopped, cfgVars, fd>>

\* mutant: the loop of run() is entered while seeds are still to be placed
AtLoopHead_early == pc \in {"seed", "loop"}

\* run() is at the head of `for i in range(0, self.iterations)`: the
\* initial population is complete, or an iteration has ended.
AtLoopHead ==
    \/ pc = "seed" /\ seeded = random_solutions
    \/ pc = "loop"

\* What stopping_criteria() can return: False, unless a subclass overrides
\* it.
StopResults == IF overridden THEN BOOLEAN ELSE {FALSE}

\* mutant: the result of stopping_criteria() is not acted upon
StopCheck_continue(stop) ==
    /\ AtLoopHead
    /\ it < iterations
    /\ stop \in StopResults
    /\ pc' = "iteration"
    /\ stopped' = stop
    /\ trace' = Append(trace, "stop_check")
    /\ NoCall
    /\ UNCHANGED <<minimization, archiveVars, selVars, random_solutions,
                   iterations, seeded, it, ind, overridden, finite_seeds,
                   cfgVars, fd>>

\* if self.stopping_criteria(): break
StopCheck(stop) ==
    /\ AtLoopHead
    /\ it < iterations
    /\ stop \in StopResults
    /\ pc' = IF stop THEN "break" ELSE "iteration"
    /\ stopped' = stop
    /\ trace' = Append(trace, "stop_check")
    /\ NoCall
    /\ UNCHANGED <<minimization, archiveVars, selVars, random_solutions,
                   iterations, seeded, it, ind, overridden, finite_seeds,
                   cfgVars, fd>>

\* self.random_selection(individuals=1) is entered
RunSelect ==
    /\ pc = "iteration"
    /\ EnterSelection(1)
    /\ pc' = "select"
    /\ trace' = Append(trace, "select")
    /\ UNCHANGED <<minimization, archiveVars, callVars, random_solutions,
                   iterations, seeded, it, ind, overridden, stopped,
                   finite_seeds, cfgVars, fd>>

\* How the external mutation operator can treat its argument: it writes
\* the offspring's genes into it (TRUE) or it builds a new vector (FALSE).
InPlaceChoices == BOOLEAN

\* ind = self.random_selection(individuals=1)[0]
\* ind = self.mutation_op(ind, **self.mutation_args)[0]
\* The operator is external: its offspring is any candidate.  Its argument
\* is inds[0], which random_selection took as self.solutions[idx]: for a
\* numpy array this is a view of the grid, so an operator that works in
\* place writes the offspring into the cell idxs[0].
Mutate(offspring, inplace) ==
    /\ pc = "returned"
    /\ Len(inds) = 1
    /\ mutation_args = "dict"
    /\ ind' = offspring
    /\ IF inplace
       THEN /\ solutions' = [solutions EXCEPT ![idxs[1]] = offspring]
            /\ inds' = <<offspring>>
       ELSE UNCHANGED <<solutions, inds>>
    /\ pc' = "mutated"
    /\ trace' = Append(trace, "mutate")
    /\ UNCHANGED <<minimization, performances, computed, accepted, callVars,
                   individuals, idxs, retries, random_solutions, iterations,
                   seeded, it, overridden, stopped, finite_seeds, cfgVars, fd>>

\* self.place_in_mapelites(ind, pbar=pbar), which ends the iteration
RunPlace ==
    /\ pc = "mutated"
    /\ place_in_mapelites(ind)
    /\ pc' = IF map_x_to_b(ind).raised THEN "aborted" ELSE "loop"
    /\ it' = it + 1
    /\ ind' = NoCandidate
    /\ ResetSelection
    /\ trace' = Append(trace, "place")
    /\ UNCHANGED <<minimization, random_solutions, iterations, seeded,
                   overridden, stopped, finite_seeds, cfgVars, fd>>

\* self.save_logs(); self.plot_map_of_elites(): after the loop has run
\* `iterations` times or was left by break
Finalize ==
    /\ \/ AtLoopHead /\ it = iterations
       \/ pc = "break"
    /\ pc' = "done"
    /\ trace' = Append(trace, "finalize")
    /\ UNCHANGED <<minimization, archiveVars, callVars, selVars,
                   random_solutions, iterations, seeded, it, ind, overridden,
                   stopped, finite_seeds, cfgVars, fd>>

NextRun ==
    \/ \E g \in RunCandidates : Seed(g)
    \/ \E stop \in BOOLEAN : StopCheck(stop)
    \/ RunSelect
    \/ \E idx \in Cells : Draw(idx)
    \/ Return
    \/ \E g \in RunCandidates, inplace \in InPlaceChoices : Mutate(g, inplace)
    \/ RunPlace
    \/ Finalize

SpecRun == InitRun /\ [][NextRun]_vars

\* The number of steps s among the first n steps of run().
CountOf(s, n) == Cardinality({j \in 1..n : trace[j] = s})

\* C10: phase and step order of run().  All G seed placements, exactly G,
\* come before the first selection; an Evolve iteration is stop-check,
\* sample(1), one mutation, one place, in this order, and no step of the
\* next iteration comes before the place of this one; Finalize happens once,
\* after the last Evolve iteration, and nothing follows it.
C10_RunOrder ==
    /\ \A i \in 1..Len(trace) :
          /\ trace[i] = "seed_place" =>
                \A j \in 1..(i - 1) : trace[j] = "seed_place"
          /\ trace[i] # "seed_place" =>
                CountOf("seed_place", i) = random_solutions
          /\ trace[i] = "stop_check" =>
                (i = 1 \/ trace[i - 1] \in {"seed_place", "place"})
          /\ trace[i] = "select" => (i > 1 /\ trace[i - 1] = "stop_check")
          /\ trace[i] = "mutate" => (i > 1 /\ trace[i - 1] = "select")
          /\ trace[i] = "place" => (i > 1 /\ trace[i - 1] = "mutate")
          /\ trace[i] = "finalize" =>
                /\ i = Len(trace)
                /\ \/ CountOf("place", i) = iterations
                   \/ (i > 1 /\ trace[i - 1] = "stop_check" /\ overridden)
    /\ CountOf("place", Len(trace)) <= iterations
    /\ CountOf("finalize", Len(trace)) <= 1
    /\ pc = "done" <=> CountOf("finalize", Len(trace)) = 1

\* C10 witness: a run of two seeds and two full iterations has finalized.
C10_Witness ==
    /\ pc = "done"
    /\ random_solutions = 2
    /\ iterations = 2
    /\ trace = <<"seed_place", "seed_place",
                 "stop_check", "select", "mutate", "place",
                 "stop_check", "select", "mutate", "place", "finalize">>

\* The last step of run() so far, "" before the first one.
LastStep == IF trace = <<>> THEN "" ELSE trace[Len(trace)]

\* C11, in a state: the stopping predicate is polled once per iteration, at
\* its start and before the selection; once it has returned True run() is
\* at the break or has finalized, and the poll was the last step before
\* Finalize; a run that finalizes without a True poll, as every run with the
\* default predicate does, has made `iterations` polls and placements.
C11_State ==
    /\ CountOf("stop_check", Len(trace)) <= iterations
    /\ \A i \in 1..Len(trace) :
          /\ trace[i] = "select" => (i > 1 /\ trace[i - 1] = "stop_check")
          /\ (trace[i] = "stop_check" /\ i < Len(trace)) =>
                trace[i + 1] \in {"select", "finalize"}
          /\ (trace[i] = "stop_check" /\ i > 1) =>
                trace[i - 1] \in {"seed_place", "place"}
    /\ ~overridden => ~stopped
    /\ stopped =>
          /\ pc \in {"break", "done"}
          /\ pc = "break" => LastStep = "stop_check"
          /\ pc = "done" => /\ LastStep = "finalize"
                            /\ trace[Len(trace) - 1] = "stop_check"
    /\ (pc = "done" /\ ~stopped) =>
          /\ CountOf("place", Len(trace)) = iterations
          /\ CountOf("stop_check", Len(trace)) = iterations

\* C11, in a step: after a True poll the only step is Finalize, which
\* leaves both grids as the previous iteration left them.
C11_Step ==
    stopped =>
        /\ pc' = "done"
        /\ trace' = Append(trace, "finalize")
        /\ solutions' = solutions
        /\ performances' = performances

\* C11: the stopping predicate is polled exactly once per Evolve iteration,
\* before the selection; once it returns True there is no further
\* selection, mutation or placement and run() goes on to Finalize; with the
\* default predicate the Evolve phase performs exactly `iterations`
\* placements.
C11_StopPolling == [](C11_State) /\ [][C11_Step]_vars

\* C11 witness: a run of two iterations was stopped by the second poll and
\* has finalized with the one placement of its first iteration.
C11_Witness ==
    /\ pc = "done"
    /\ stopped
    /\ iterations = 2
    /\ CountOf("place", Len(trace)) = 1
    /\ CountOf("stop_check", Len(trace)) = 2
    /\ accepted # {}

\* C11, the default predicate: a run of two iterations has finalized after
\* two placements.
C11_WitnessDefault ==
    /\ pc = "done"
    /\ ~overridden
    /\ iterations = 2
    /\ CountOf("place", Len(trace)) = 2

\* The step is a place_in_mapelites call of run().
RunPlaceStep ==
    /\ trace' # trace
    /\ trace'[Len(trace')] \in {"seed_place", "place"}

\* C12 (as claimed): the grids change only in a placement.  The selection
\* and the mutation of an iteration leave both grids unchanged, and the
\* shape of the grids never changes.
C12_OnlyPlacementWrites ==
    [][ /\ (solutions' # solutions \/ performances' # performances)
            => RunPlaceStep
        /\ DOMAIN solutions' = Cells
        /\ DOMAIN performances' = Cells ]_vars

\* The descriptor error of g on the feature dimension (the distance of its
\* first gene from the target 0) is outside the bins.
OutOfRange(g) ==
    LET gap == IF g[1] >= 0 THEN g[1] ELSE -g[1]
    IN  gap < Bins[1] \/ gap >= Bins[Len(Bins)]

\* C13: a candidate whose descriptor error is outside the bins makes place
\* raise before it writes anything: both grids are left as the call found
\* them, no cell, boundary cell or other, takes the candidate, and run() is
\* aborted: it performs no further step.  A candidate inside the bins does
\* not raise.
C13_OutOfRangeFatal ==
    [][ /\ (RunPlaceStep /\ OutOfRange(x')) =>
              /\ log' = "raise"
              /\ pc' = "aborted"
              /\ solutions' = solutions
              /\ performances' = performances
        /\ (RunPlaceStep /\ ~OutOfRange(x')) =>
              /\ log' \in {"placed", "rejected"}
              /\ pc' # "aborted"
        /\ pc # "aborted" ]_vars

\* C13 witness: the place of an Evolve iteration has raised for an offspring
\* on the last edge, in a run whose archive holds an elite.
C13_Witness ==
    /\ pc = "aborted"
    /\ log = "raise"
    /\ LastStep = "place"
    /\ x[1] = Bins[Len(Bins)]
    /\ accepted # {}

(***************************************************************************)
(* SpecConfig: from_config(cls, config), which constructs the object, and  *)
(* then run().                                                             *)
(***************************************************************************)
\* The operator names config['mutation']['type'] and
\* config['crossover']['type'] are drawn from.
MutationTypes == {"GAUSSIAN", "gaussian", "SWAP"}
CrossoverTypes == {"UNIFORM", "uniform", "ONEPOINT"}

\* str.lower on these names
Lower(name) ==
    CASE name = "GAUSSIAN" -> "gaussian"
      [] name = "UNIFORM" -> "uniform"
      [] name = "SWAP" -> "swap"
      [] name = "ONEPOINT" -> "onepoint"
      [] OTHER -> name

\* The callables of EaOperators, as <<prefix, suffix>> of their names
\* gaussian_mutation and uniform_crossover.
ea_operators == {<<"gaussian", "mutation">>, <<"uniform", "crossover">>}

\* The configurations: the two operator types, the operator the subclass
\* gives to its FeatureDimension ("ne" is not one of the five), and whether
\* generate_feature_dimensions returns a list of FeatureDimension.
Configs ==
    [given : {TRUE}, mutation : MutationTypes, crossover : CrossoverTypes,
     relation : Operators \cup {"ne"}, dimensions_ok : BOOLEAN]

InitConfig ==
    /\ InitArchive
    /\ fd = NoFd
    /\ pc = "config"
    /\ config \in Configs
    /\ mutation_args = "None"
    /\ random_solutions \in 0..MaxSeed
    /\ iterations \in 0..MaxIter
    /\ overridden = FALSE

\* from_config: the ValueError of an operator that is not implemented, then
\* cls(...), whose __init__ raises for a FeatureDimension with an operator
\* that is not recognized and for feature dimensions that are no list of
\* FeatureDimension.  mutation_args is a dict only for the type "GAUSSIAN".
FromConfig ==
    /\ pc = "config"
    /\ LET mutation_fun == <<Lower(config.mutation), "mutation">>
           crossover_fun == <<Lower(config.crossover), "crossover">>
           raises == \/ mutation_fun \notin ea_operators
                     \/ crossover_fun \notin ea_operators
                     \/ config.relation \notin Operators
                     \/ ~config.dimensions_ok
       IN  /\ pc' = IF raises THEN "config_error" ELSE "seed"
           /\ mutation_args' =
                 IF ~raises /\ config.mutation = "GAUSSIAN"
                 THEN "dict" ELSE "None"
    /\ UNCHANGED <<minimization, archiveVars, callVars, selVars, runVars,
                   config, fd>>

\* ind = self.mutation_op(ind, **self.mutation_args)[0] with mutation_args
\* None: the TypeError of ** on None ends run().
MutateRaises ==
    /\ pc = "returned"
    /\ Len(inds) = 1
    /\ mutation_args = "None"
    /\ pc' = "type_error"
    /\ UNCHANGED <<minimization, archiveVars, callVars, selVars, runVars,
                   cfgVars, fd>>

NextConfig ==
    \/ FromConfig
    \/ NextRun
    \/ MutateRaises

SpecConfig == InitConfig /\ [][NextConfig]_vars

\* C14 (as claimed): a configuration fault is raised at construction time,
\* before any seed placement or iteration: a refused configuration has left
\* run() unstarted, and no fault of the operator configuration surfaces as
\* an error inside the Seed or Evolve phase.
C14_ConfigFaultsAtConstruction ==
    /\ pc = "config_error" =>
          /\ trace = <<>>
          /\ accepted = {}
          /\ \/ <<Lower(config.mutation), "mutation">> \notin ea_operators
             \/ <<Lower(config.crossover), "crossover">> \notin ea_operators
             \/ config.relation \notin Operators
             \/ ~config.dimensions_ok
    /\ pc # "type_error"

(***************************************************************************)
(* SpecFair: Spec with fair draws.  np.random.randint draws every          *)
(* coordinate of the grid again and again, so a coordinate whose draw      *)
(* would be accepted is not passed over forever; and a loop that has       *)
(* collected its coordinates returns.                                      *)
(***************************************************************************)
SpecFair ==
    /\ Spec
    /\ \A idx \in Cells : WF_vars(Draw(idx))
    /\ WF_vars(Return)

\* C15: selector termination.  With at least n occupied cells,
\* random_selection(n) eventually returns, under fair draws.
C15_SelectionTerminates ==
    (pc = "select" /\ Cardinality(Occupied) >= individuals)
        ~> (pc = "returned")

\* C15 witness: random_selection(3) has returned the three cells of a full
\* archive, after rejected draws.
C15_Witness ==
    /\ pc = "returned"
    /\ individuals = 3
    /\ Len(idxs) = 3
    /\ Cardinality(Occupied) = 3
    /\ retries >= 1

\* The Seed phase is over, it placed at least one seed, no seed was out of
\* range and every seed had a finite performance.
SeededWell ==
    /\ random_solutions >= 1
    /\ seeded = random_solutions
    /\ finite_seeds
    /\ ~(pc = "aborted" /\ LastStep = "seed_place")

\* C16 (as claimed): for both directions, after a Seed phase of at least one
\* seed, all of finite performance and in range, the archive has an occupied
\* cell, so that the random_selection(1) of an iteration is never drawing
\* from an archive without one.
C16_SeedEstablishesSample ==
    SeededWell => \E b \in Cells : /\ solutions[b] # EmptySolution
                                   /\ ~_is_not_initialized(b)

\* C16 under minimization only, where it holds.
C16_MinimizationOnly == minimization => C16_SeedEstablishesSample

\* The two grids agree on the emptiness of every cell.
GridsAgree ==
    \A b \in Cells : performances[b] = Inf <=> solutions[b] = EmptySolution

InfinitePlacedMaximizing ==
    ~minimization /\ \E b \in Cells : Inf \in computed[b]

C18_CellsSelfConsistent ==
    \A b \in Cells :
        solutions[b] # EmptySolution =>
            /\ performances[b] = performance_measure(solutions[b])
            /\ InRange(solutions[b])
            /\ CellOf(solutions[b]) = b

\* The cells that hold a genotype and that the selector takes as occupied.
OccupiedCells ==
    {b \in Cells : solutions[b] # EmptySolution /\ ~_is_not_initialized(b)}

\* The cells that hold a genotype or that the selector takes as occupied.
TouchedCells ==
    {b \in Cells : solutions[b] # EmptySolution \/ ~_is_not_initialized(b)}

\* C19: occupancy is monotone.  A cell that is occupied stays occupied in
\* every later state, for the stored genotype and for the selector's test;
\* the number of occupied cells never decreases, changes only in a place
\* call, and grows by at most one in it.
C19_OccupancyMonotone ==
    [][ /\ OccupiedCells \subseteq OccupiedCells'
        /\ TouchedCells' = OccupiedCells'
        /\ Cardinality(OccupiedCells') <= Cardinality(OccupiedCells) + 1
        /\ OccupiedCells' # OccupiedCells => RunPlaceStep ]_vars

\* C19 witness: in a run with two occupied cells the place of an iteration
\* was rejected at one of them, which is still occupied.
C19_Witness ==
    /\ Cardinality(OccupiedCells) = 2
    /\ LastStep = "place"
    /\ log = "rejected"
    /\ CellOf(x) \in OccupiedCells
    /\ before.solution # EmptySolution

====
